---- MODULE Spec2Model ----
(***************************************************************************)
(* Model of the Gemini chat bot's response-generation flows and of the     *)
(* chat page that calls them.                                              *)
(*                                                                         *)
(*   src/src/ai/flows/generate-response.ts  generateResponseFlow           *)
(*   src/unnamed/part_002                   routeToFallbackModelFlow       *)
(*   src/unnamed/part_001                   generateResponseFlow (string   *)
(*                                          builder, no fallback)          *)
(*   src/unnamed/part_003                   callGenerateResponse           *)
(*   src/src/app/page.tsx, part_005         Home: handleSendMessage        *)
(*                                                                         *)
(* A prompt is modelled as the sequence of its rendered lines; each line   *)
(* is a pair <<label, payload>>.  An async handler is split at its awaits: *)
(* the action that issues a model call, and the action that continues the  *)
(* handler with the call's outcome.                                        *)
(***************************************************************************)
EXTENDS Naturals, Sequences, FiniteSets

\* Longest chatHistory array the requests carry.
MaxHistory == 2

\* JavaScript's undefined, for the optional string fields.
Undefined == "<undefined>"

\* The three flows of the repository.
GenerateResponseFlowName == "generateResponseFlow"
RouteToFallbackFlowName == "routeToFallbackModelFlow"
StringBuilderFlowName == "generateResponseFlow(part_001)"

FallbackFlows == {GenerateResponseFlowName, RouteToFallbackFlowName}

----------------------------------------------------------------------------
\* Request values.

\* ChatMessageSchema: {text, isUser, image?}.
ChatMessageSchema ==
    { [text |-> "Hi", isUser |-> TRUE, image |-> Undefined],
      [text |-> "Look", isUser |-> TRUE, image |-> "data:cat"],
      [text |-> "Hello!", isUser |-> FALSE, image |-> Undefined] }

RECURSIVE SeqsUpTo(_, _)
SeqsUpTo(S, n) ==
    IF n = 0 THEN {<<>>}
    ELSE LET shorter == SeqsUpTo(S, n - 1)
         IN  shorter \cup { Append(s, x) : s \in {t \in shorter : Len(t) = n - 1}, x \in S }

\* chatHistory is optional: absent (present = FALSE) or an array, [] included.
ChatHistories ==
    { [present |-> FALSE, items |-> <<>>] }
      \cup { [present |-> TRUE, items |-> h] : h \in SeqsUpTo(ChatMessageSchema, MaxHistory) }

\* What a caller can pass as message: a string, or nothing at all.
MessageValues == {Undefined, "", "Hello"}
ImageValues == {Undefined, "", "data:dog"}

\* The objects a caller can hand to generateResponse.
GenerateResponseInputs ==
    [message : MessageValues, chatHistory : ChatHistories, image : ImageValues]

\* The objects a caller can hand to routeToFallbackModel: {userInput} only.
RouteToFallbackModelInputs ==
    [message : MessageValues,
     chatHistory : {[present |-> FALSE, items |-> <<>>]},
     image : {Undefined}]

NoInput == [message |-> Undefined, chatHistory |-> [present |-> FALSE, items |-> <<>>],
            image |-> Undefined]

\* z.object({message: z.string(), chatHistory: ...optional(), image: z.string().optional()}):
\* message must be a string, of any length; nothing relates message and image.
GenerateResponseInputSchema(in) == in.message # Undefined

\* z.object({userInput: z.string()}).
RouteToFallbackModelInputSchema(in) == in.message # Undefined

----------------------------------------------------------------------------
\* Truthiness.

\* A JavaScript condition on an optional string: undefined and "" are falsy.
JsTruthyString(s) == s # Undefined /\ s # ""

\* A JavaScript condition on an optional array: only undefined is falsy, [] is truthy.
JsTruthyArray(h) == h.present

\* Handlebars' #if on an array: undefined and [] are both falsy.
HbsTruthyArray(h) == h.present /\ Len(h.items) > 0

\* Handlebars' #if on a string: undefined and "" are falsy.
HbsTruthyString(s) == s # Undefined /\ s # ""

----------------------------------------------------------------------------
\* Prompt builders.  A rendered prompt is a sequence of lines <<label, payload>>.

RECURSIVE Flatten(_)
Flatten(ss) == IF ss = <<>> THEN <<>> ELSE Head(ss) \o Flatten(Tail(ss))

\* {{#each chatHistory}} ... {{/each}} of both templates of generate-response.ts.
TemplateTurn(m) ==
    IF m.isUser
    THEN <<<<"User:", m.text>>>>
           \o (IF HbsTruthyString(m.image) THEN <<<<"User Image:", m.image>>>> ELSE <<>>)
    ELSE <<<<"AI:", m.text>>>>

\* {{#if chatHistory}} Chat History: {{#each}}...{{/each}} {{/if}}.
TemplateHistory(h) ==
    IF HbsTruthyArray(h)
    THEN <<<<"Chat History:", "">>>> \o Flatten([i \in 1..Len(h.items) |-> TemplateTurn(h.items[i])])
    ELSE <<>>

\* A template that adds the image lines only when there is a message too.
TemplateMessage_TextRequired(in) ==
    <<<<"Message:", in.message>>>>
      \o (IF HbsTruthyString(in.message) /\ HbsTruthyString(in.image)
          THEN <<<<"User Image:", in.image>>, <<"Please describe the image.", "">>>>
          ELSE <<>>)
\* Message: {{{message}}} {{#if image}} User Image / Please describe the image. {{/if}}.
TemplateMessage(in) ==
    <<<<"Message:", in.message>>>>
      \o (IF HbsTruthyString(in.image)
          THEN <<<<"User Image:", in.image>>, <<"Please describe the image.", "">>>>
          ELSE <<>>)

PrimaryInstruction == <<"Instruction", "You are a helpful AI assistant.">>
FallbackInstruction ==
    <<"Instruction", "You are a helpful AI assistant, using a less capable model than usual.">>

generateResponsePrompt(in) ==
    <<PrimaryInstruction>> \o TemplateHistory(in.chatHistory) \o TemplateMessage(in)

\* A fallback template that leaves the chat history out.
generateResponseFallbackPrompt_NoHistory(in) ==
    <<FallbackInstruction>> \o TemplateMessage(in)
generateResponseFallbackPrompt(in) ==
    <<FallbackInstruction>> \o TemplateHistory(in.chatHistory) \o TemplateMessage(in)

primaryModelPrompt(in) ==
    << <<"Instruction", "You are a helpful chatbot.">>, <<"user input:", in.message>> >>

fallbackModelPrompt(in) ==
    << <<"Instruction", "You are a backup chatbot.">>, <<"user input:", in.message>> >>

\* part_001's forEach body.
BuilderTurn(m) ==
    IF m.isUser
    THEN <<<<"User:", m.text>>>>
           \o (IF JsTruthyString(m.image) THEN <<<<"User Image:", m.image>>>> ELSE <<>>)
    ELSE <<<<"AI:", m.text>>>>

\* part_001's string builder.
BuildPrompt(in) ==
    <<PrimaryInstruction>>
      \o (IF JsTruthyArray(in.chatHistory)
          THEN <<<<"Chat History:", "">>>>
                 \o Flatten([i \in 1..Len(in.chatHistory.items) |-> BuilderTurn(in.chatHistory.items[i])])
          ELSE <<>>)
      \o <<<<"Message:", in.message>>>>
      \o (IF JsTruthyString(in.message) /\ JsTruthyString(in.image)
          THEN <<<<"User Image:", in.image>>, <<"Please describe the image.", "">>>>
          ELSE <<>>)

----------------------------------------------------------------------------
\* The external model client.

Errors == {"503 Service Unavailable", "API key not valid"}
Responses == {"", "Hi there!", "Backup says hi"}

NoOutcome == [kind |-> "none", response |-> Undefined, error |-> Undefined]

\* What awaiting a Genkit prompt can give: a rejection, or {output} where output is
\* null, an object without a response string, or {response: <string>}.
PromptOutcomes ==
    { [kind |-> "throw", response |-> Undefined, error |-> e] : e \in Errors }
      \cup { [kind |-> "null", response |-> Undefined, error |-> Undefined],
             [kind |-> "invalid", response |-> Undefined, error |-> Undefined] }
      \cup { [kind |-> "text", response |-> r, error |-> Undefined] : r \in Responses }

\* What awaiting callGenerateResponse (part_003) can give: a rejection, or the string
\* response.text() returns.
callGenerateResponseOutcomes ==
    { [kind |-> "throw", response |-> Undefined, error |-> e] : e \in Errors }
      \cup { [kind |-> "text", response |-> r, error |-> Undefined] : r \in Responses }

\* The value `output` of `const {output} = await prompt(input)`.
Output(o) == [isObject |-> o.kind # "null", response |-> o.response]

\* z.object({response: z.string()}): an object whose response is a string, "" included.
GenerateResponseOutputSchema(v) == v.isObject /\ v.response # Undefined

FailureText == "Failed to get response from AI. Please try again."

----------------------------------------------------------------------------
\* State of one flow invocation.

VARIABLES
    flow,        \* which flow was invoked
    input,       \* the request object handed to the entry point
    pc,          \* "idle", "awaitPrimary", "awaitFallback", "returned", "raised"
    calls,       \* the external model calls issued so far, in order
    primaryOut,  \* what the primary call gave, NoOutcome before it completes
    fallbackOut, \* what the fallback call gave, NoOutcome before it completes
    results,     \* the values the entry point has resolved with
    raised,      \* the errors the entry point has rejected with
    log          \* console.error lines

flowVars == <<flow, input, pc, calls, primaryOut, fallbackOut, results, raised, log>>

\* State of the chat page.
VARIABLES
    page,           \* which page component runs
    apiKey,         \* whether NEXT_PUBLIC_GOOGLE_GENAI_API_KEY is set
    messages,       \* useState<ChatMessage[]>([])
    textInput,      \* useState(''): the textarea's value (`input` in the source)
    selectedImage,  \* useState<string | null>(null)
    isLoading,      \* useState(false)
    toasts,         \* the descriptions passed to toast()
    consoleErrors,  \* console.error lines of the page
    pending         \* the model calls awaited by handleSendMessage, with what was sent

uiVars == <<page, apiKey, messages, textInput, selectedImage, isLoading, toasts,
            consoleErrors, pending>>

PrimaryCalls == Len(SelectSeq(calls, LAMBDA c : c.role = "primary"))
FallbackCalls == Len(SelectSeq(calls, LAMBDA c : c.role = "fallback"))

FlowInit ==
    /\ flow = "none"
    /\ input = NoInput
    /\ pc = "idle"
    /\ calls = <<>>
    /\ primaryOut = NoOutcome
    /\ fallbackOut = NoOutcome
    /\ results = <<>>
    /\ raised = <<>>
    /\ log = <<>>

\* The flow's handler returns v: defineFlow checks it against outputSchema, and the
\* entry point resolves with it or rejects.
FlowReturn(v, source) ==
    IF GenerateResponseOutputSchema(v)
    THEN /\ pc' = "returned"
         /\ results' = Append(results, [source |-> source, response |-> v.response])
         /\ raised' = raised
    ELSE /\ pc' = "raised"
         /\ raised' = Append(raised, "output schema validation")
         /\ results' = results

\* The handler throws e: the entry point rejects with it.
FlowThrow(e) ==
    /\ pc' = "raised"
    /\ raised' = Append(raised, e)
    /\ results' = results

\* The entry point is called with an object that fails inputSchema.
FlowRejectInput ==
    /\ pc' = "raised"
    /\ raised' = Append(raised, "input schema validation")
    /\ UNCHANGED <<calls, primaryOut, fallbackOut, results, log>>

IssueCall(role, prompt) ==
    calls' = Append(calls, [role |-> role, prompt |-> prompt])

----------------------------------------------------------------------------
\* generate-response.ts

\* generateResponse(input): up to the await of generateResponsePrompt(input).
generateResponse(in) ==
    /\ UNCHANGED uiVars
    /\ pc = "idle"
    /\ flow' = GenerateResponseFlowName
    /\ input' = in
    /\ IF GenerateResponseInputSchema(in)
       THEN /\ IssueCall("primary", generateResponsePrompt(in))
            /\ pc' = "awaitPrimary"
            /\ UNCHANGED <<primaryOut, fallbackOut, results, raised, log>>
       ELSE FlowRejectInput

\* The catch block: log, then await generateResponseFallbackPrompt(input).
generateResponseFlowCatch_GiveUp(e) ==
    /\ log' = Append(log, <<"Main model failed", e>>)
    /\ UNCHANGED calls
    /\ FlowReturn([isObject |-> TRUE, response |-> FailureText], "failure text")
generateResponseFlowCatch(e) ==
    /\ log' = Append(log, <<"Main model failed", e>>)
    /\ IssueCall("fallback", generateResponseFallbackPrompt(input))
    /\ pc' = "awaitFallback"
    /\ UNCHANGED <<results, raised>>

\* The try block after the primary call completes with o.
generateResponseFlowPrimary_AlwaysFallback(o) ==
    /\ UNCHANGED uiVars
    /\ pc = "awaitPrimary" /\ flow = GenerateResponseFlowName
    /\ primaryOut' = o
    /\ generateResponseFlowCatch(IF o.kind = "throw" THEN o.error ELSE "no error")
    /\ UNCHANGED <<flow, input, fallbackOut>>
generateResponseFlowPrimary(o) ==
    /\ UNCHANGED uiVars
    /\ pc = "awaitPrimary" /\ flow = GenerateResponseFlowName
    /\ primaryOut' = o
    /\ IF o.kind = "throw"
       THEN generateResponseFlowCatch(o.error)
       ELSE FlowReturn(Output(o), "primary") /\ UNCHANGED <<calls, log>>
    /\ UNCHANGED <<flow, input, fallbackOut>>

\* The catch block after the fallback call completes with o: a rejection leaves the
\* handler, nothing catches it.
generateResponseFlowFallback_Retry(o) ==
    /\ UNCHANGED uiVars
    /\ pc = "awaitFallback" /\ flow = GenerateResponseFlowName
    /\ fallbackOut' = o
    /\ IF o.kind = "throw"
       THEN /\ IssueCall("fallback", generateResponseFallbackPrompt(input))
            /\ UNCHANGED <<pc, results, raised>>
       ELSE FlowReturn(Output(o), "fallback") /\ UNCHANGED calls
    /\ UNCHANGED <<flow, input, primaryOut, log>>
generateResponseFlowFallback(o) ==
    /\ UNCHANGED uiVars
    /\ pc = "awaitFallback" /\ flow = GenerateResponseFlowName
    /\ fallbackOut' = o
    /\ IF o.kind = "throw"
       THEN FlowThrow(o.error)
       ELSE FlowReturn(Output(o), "fallback")
    /\ UNCHANGED <<flow, input, calls, primaryOut, log>>

----------------------------------------------------------------------------
\* part_002

\* routeToFallbackModel(input): up to the await of primaryModelPrompt(input).
routeToFallbackModel(in) ==
    /\ UNCHANGED uiVars
    /\ pc = "idle"
    /\ flow' = RouteToFallbackFlowName
    /\ input' = in
    /\ IF RouteToFallbackModelInputSchema(in)
       THEN /\ IssueCall("primary", primaryModelPrompt(in))
            /\ pc' = "awaitPrimary"
            /\ UNCHANGED <<primaryOut, fallbackOut, results, raised, log>>
       ELSE FlowRejectInput

\* The try block after the primary call completes with o.  `output!.response` on a
\* null output is a TypeError thrown inside the try, so the catch block runs for it too.
routeToFallbackModelFlowPrimary(o) ==
    /\ UNCHANGED uiVars
    /\ pc = "awaitPrimary" /\ flow = RouteToFallbackFlowName
    /\ primaryOut' = o
    /\ IF o.kind \in {"throw", "null"}
       THEN /\ log' = Append(log, <<"Primary model failed, routing to fallback model:",
                                    IF o.kind = "throw" THEN o.error ELSE "TypeError">>)
            /\ IssueCall("fallback", fallbackModelPrompt(input))
            /\ pc' = "awaitFallback"
            /\ UNCHANGED <<results, raised>>
       ELSE /\ FlowReturn([isObject |-> TRUE, response |-> o.response], "primary")
            /\ UNCHANGED <<calls, log>>
    /\ UNCHANGED <<flow, input, fallbackOut>>

\* The catch block after the fallback call completes with o.
routeToFallbackModelFlowFallback(o) ==
    /\ UNCHANGED uiVars
    /\ pc = "awaitFallback" /\ flow = RouteToFallbackFlowName
    /\ fallbackOut' = o
    /\ IF o.kind = "throw"
       THEN FlowThrow(o.error)
       ELSE IF o.kind = "null"
       THEN FlowThrow("TypeError")
       ELSE FlowReturn([isObject |-> TRUE, response |-> o.response], "fallback")
    /\ UNCHANGED <<flow, input, calls, primaryOut, log>>

----------------------------------------------------------------------------
\* part_001

\* generateResponse(input) of part_001: builds the prompt, up to the await of
\* callGenerateResponse(prompt).
generateResponseStringBuilder(in) ==
    /\ UNCHANGED uiVars
    /\ pc = "idle"
    /\ flow' = StringBuilderFlowName
    /\ input' = in
    /\ IF GenerateResponseInputSchema(in)
       THEN /\ IssueCall("primary", BuildPrompt(in))
            /\ pc' = "awaitPrimary"
            /\ UNCHANGED <<primaryOut, fallbackOut, results, raised, log>>
       ELSE FlowRejectInput

\* After callGenerateResponse completes with o: the response, or the fixed text.
generateResponseStringBuilderDone(o) ==
    /\ UNCHANGED uiVars
    /\ pc = "awaitPrimary" /\ flow = StringBuilderFlowName
    /\ primaryOut' = o
    /\ IF o.kind = "throw"
       THEN /\ log' = Append(log, <<"Main model failed", o.error>>)
            /\ FlowReturn([isObject |-> TRUE, response |-> FailureText], "failure text")
       ELSE /\ FlowReturn([isObject |-> TRUE, response |-> o.response], "primary")
            /\ UNCHANGED log
    /\ UNCHANGED <<flow, input, calls, fallbackOut>>

----------------------------------------------------------------------------
\* The chat page: src/src/app/page.tsx (calls the Gemini SDK itself) and part_005
\* (calls generateResponse).

\* Most messages a user sends in one session.
MaxSends == 2

PageTsx == "page.tsx"
Part005 == "part_005"

\* What the textarea can hold, and the data URL a picked image gives.
TextInputs == {"", " ", "Hello"}
PickedImage == "data:image/png;base64,DOG"
NoImage == "<null>"

\* String.prototype.trim on the textarea's values.
Trim(s) == IF s \in {"", " "} THEN "" ELSE s

\* selectedImage.split(',')[1].
Base64Part(url) == IF url = PickedImage THEN "DOG" ELSE Undefined

\* error.message of what the awaited call rejects with; "" when the error has none.
ErrorMessages == {"", "503 Service Unavailable"}
\* What the awaited call resolves with.
AiTexts == {"Hi there!"}

CallOutcomes ==
    { [kind |-> "throw", response |-> Undefined, error |-> e] : e \in ErrorMessages }
      \cup { [kind |-> "text", response |-> r, error |-> Undefined] : r \in AiTexts }

MissingKeyText ==
    "NEXT_PUBLIC_GOOGLE_GENAI_API_KEY is not set. Please configure your environment variables."

UIInit ==
    /\ page \in {PageTsx, Part005}
    /\ apiKey \in BOOLEAN
    /\ page = Part005 => apiKey
    /\ messages = <<>>
    /\ textInput = ""
    /\ selectedImage = NoImage
    /\ isLoading = FALSE
    /\ toasts = <<>>
    /\ consoleErrors = <<>>
    /\ pending = <<>>

UserTurns == Len(SelectSeq(messages, LAMBDA m : m.isUser))

\* onChange of the textarea.
setInput(t) ==
    /\ UNCHANGED flowVars
    /\ textInput' = t
    /\ UNCHANGED <<page, apiKey, messages, selectedImage, isLoading, toasts,
                   consoleErrors, pending>>

\* handleImageChange: the FileReader's onloadend stores the data URL.
handleImageChange ==
    /\ UNCHANGED flowVars
    /\ selectedImage' = PickedImage
    /\ UNCHANGED <<page, apiKey, messages, textInput, isLoading, toasts,
                   consoleErrors, pending>>

handleClearImage ==
    /\ UNCHANGED flowVars
    /\ selectedImage # NoImage
    /\ selectedImage' = NoImage
    /\ UNCHANGED <<page, apiKey, messages, textInput, isLoading, toasts,
                   consoleErrors, pending>>

\* The user message handleSendMessage appends.
UserMessage ==
    [id |-> "-user", text |-> textInput, isUser |-> TRUE,
     image |-> IF selectedImage # NoImage THEN selectedImage ELSE Undefined]

\* page.tsx's `parts`: the text if it is truthy, then the image if one is selected.
Parts ==
    (IF textInput # "" THEN <<<<"text", textInput>>>> ELSE <<>>)
      \o (IF selectedImage # NoImage
          THEN <<<<"inlineData", Base64Part(selectedImage)>>>> ELSE <<>>)

\* page.tsx's `history`: messages.map(...), each turn's parts filtered by Boolean.
HistoryTurn(m) ==
    [role |-> IF m.isUser THEN "user" ELSE "model",
     parts |-> (IF m.text # "" THEN <<<<"text", m.text>>>> ELSE <<>>)
                 \o (IF JsTruthyString(m.image)
                     THEN <<<<"inlineData", Base64Part(m.image)>>>> ELSE <<>>)]

\* A history built from the list with the current user message already in it.
History_WithCurrent ==
    [i \in 1..(Len(messages) + 1) |-> HistoryTurn(Append(messages, UserMessage)[i])]
History == [i \in 1..Len(messages) |-> HistoryTurn(messages[i])]

\* part_005's argument of generateResponse.
FlowRequest ==
    [message |-> textInput,
     chatHistory |-> messages,
     image |-> IF selectedImage # NoImage THEN selectedImage ELSE ""]

\* handleSendMessage up to its await (or its early return).
handleSendMessage ==
    /\ UserTurns < MaxSends
    /\ ~(Trim(textInput) = "" /\ selectedImage = NoImage)
    /\ messages' = Append(messages, UserMessage)
    /\ textInput' = ""
    /\ selectedImage' = NoImage
    /\ IF page = PageTsx /\ ~apiKey
       THEN /\ toasts' = Append(toasts, MissingKeyText)
            /\ isLoading' = FALSE
            /\ pending' = pending
       ELSE /\ isLoading' = TRUE
            /\ toasts' = toasts
            /\ pending' = Append(pending,
                  IF page = PageTsx
                  THEN [via |-> "chat.sendMessage", parts |-> Parts, history |-> History,
                        request |-> NoInput]
                  ELSE [via |-> "generateResponse", parts |-> <<>>, history |-> <<>>,
                        request |-> FlowRequest])
    /\ UNCHANGED <<page, apiKey, consoleErrors>>

\* The Send button: disabled while isLoading.
ClickSend ==
    /\ ~isLoading
    /\ handleSendMessage
    /\ UNCHANGED flowVars

\* Enter in the textarea (without Shift): calls handleSendMessage whatever isLoading is.
PressEnter ==
    /\ handleSendMessage
    /\ UNCHANGED flowVars

\* The error bubble's and the toast's text.
ErrorMessage(e) == IF e # "" THEN e ELSE FailureText

Remove(seq, i) == [j \in 1..(Len(seq) - 1) |-> IF j < i THEN seq[j] ELSE seq[j + 1]]

\* A continuation that appends to the list its closure captured before the await,
\* [...messages, m], instead of the functional update.
handleSendMessageDone_StaleClosure(i, o) ==
    /\ UNCHANGED flowVars
    /\ i \in 1..Len(pending)
    /\ pending' = Remove(pending, i)
    /\ LET captured == SubSeq(messages, 1,
                               IF page = PageTsx THEN Len(pending[i].history)
                               ELSE Len(pending[i].request.chatHistory))
       IN IF o.kind = "text"
          THEN /\ messages' = Append(captured,
                     [id |-> "-ai", text |-> o.response, isUser |-> FALSE, image |-> Undefined])
               /\ UNCHANGED <<toasts, consoleErrors>>
          ELSE /\ consoleErrors' = Append(consoleErrors, <<"Error sending message:", o.error>>)
               /\ toasts' = IF page = PageTsx
                            THEN Append(toasts, ErrorMessage(o.error)) ELSE toasts
               /\ messages' = Append(captured,
                     [id |-> "-error", text |-> "Error: " \o ErrorMessage(o.error),
                      isUser |-> FALSE, image |-> Undefined])
    /\ isLoading' = FALSE
    /\ UNCHANGED <<page, apiKey, textInput, selectedImage>>
\* A catch block that shows the notification and appends no bubble.
handleSendMessageDone_ToastOnly(i, o) ==
    /\ UNCHANGED flowVars
    /\ i \in 1..Len(pending)
    /\ pending' = Remove(pending, i)
    /\ IF o.kind = "text"
       THEN /\ messages' = Append(messages,
                  [id |-> "-ai", text |-> o.response, isUser |-> FALSE, image |-> Undefined])
            /\ UNCHANGED <<toasts, consoleErrors>>
       ELSE /\ consoleErrors' = Append(consoleErrors, <<"Error sending message:", o.error>>)
            /\ toasts' = Append(toasts, ErrorMessage(o.error))
            /\ messages' = messages
    /\ isLoading' = FALSE
    /\ UNCHANGED <<page, apiKey, textInput, selectedImage>>
\* handleSendMessage after its await: the i-th awaited call completes with o.
handleSendMessageDone(i, o) ==
    /\ UNCHANGED flowVars
    /\ i \in 1..Len(pending)
    /\ pending' = Remove(pending, i)
    /\ IF o.kind = "text"
       THEN /\ messages' = Append(messages,
                  [id |-> "-ai", text |-> o.response, isUser |-> FALSE, image |-> Undefined])
            /\ UNCHANGED <<toasts, consoleErrors>>
       ELSE /\ consoleErrors' = Append(consoleErrors, <<"Error sending message:", o.error>>)
            /\ toasts' = IF page = PageTsx
                         THEN Append(toasts, ErrorMessage(o.error)) ELSE toasts
            /\ messages' = Append(messages,
                  [id |-> "-error", text |-> "Error: " \o ErrorMessage(o.error),
                   isUser |-> FALSE, image |-> Undefined])
    /\ isLoading' = FALSE
    /\ UNCHANGED <<page, apiKey, textInput, selectedImage>>

----------------------------------------------------------------------------
\* Spec: the flows, each entry point called once with any object a caller can pass.
\* SpecUI: one session of the chat page.

vars == <<flowVars, uiVars>>

Init == FlowInit /\ UIInit

Next ==
    \/ \E in \in GenerateResponseInputs : generateResponse(in)
    \/ \E o \in PromptOutcomes : generateResponseFlowPrimary(o)
    \/ \E o \in PromptOutcomes : generateResponseFlowFallback(o)
    \/ \E in \in RouteToFallbackModelInputs : routeToFallbackModel(in)
    \/ \E o \in PromptOutcomes : routeToFallbackModelFlowPrimary(o)
    \/ \E o \in PromptOutcomes : routeToFallbackModelFlowFallback(o)
    \/ \E in \in GenerateResponseInputs : generateResponseStringBuilder(in)
    \/ \E o \in callGenerateResponseOutcomes : generateResponseStringBuilderDone(o)

Spec == Init /\ [][Next]_vars

NextUI ==
    \/ \E t \in TextInputs : setInput(t)
    \/ handleImageChange
    \/ handleClearImage
    \/ ClickSend
    \/ PressEnter
    \/ \E i \in 1..Len(pending), o \in CallOutcomes : handleSendMessageDone(i, o)

SpecUI == Init /\ [][NextUI]_vars

----------------------------------------------------------------------------
\* Properties of the flows.

PrimaryThrew == primaryOut.kind = "throw"
FallbackThrew == fallbackOut.kind = "throw"
Terminated == pc \in {"returned", "raised"}

\* The request satisfies the input constraint: message or image present.
MessageOrImagePresent ==
    /\ input.message # Undefined
    /\ JsTruthyString(input.message) \/ JsTruthyString(input.image)

\* An output that is absent, schema-invalid or empty.
EmptyOrInvalid(o) ==
    o.kind \in {"null", "invalid"} \/ (o.kind = "text" /\ o.response = "")

Labels(prompt) == { prompt[i][1] : i \in 1..Len(prompt) }

\* C1: in generateResponseFlow and routeToFallbackModelFlow, once the primary call
\* has failed (rejected), exactly one fallback call has been issued for the request,
\* and once that call gives an output the flow has returned exactly that output.
C1_FallbackOnceAndReturned ==
    (flow \in FallbackFlows /\ PrimaryThrew) =>
        /\ FallbackCalls = 1
        /\ fallbackOut.kind = "text" =>
              /\ pc = "returned"
              /\ results = <<[source |-> "fallback", response |-> fallbackOut.response]>>

C1_Witness ==
    /\ flow = GenerateResponseFlowName
    /\ PrimaryThrew
    /\ fallbackOut.kind = "text" /\ fallbackOut.response = "Backup says hi"
    /\ pc = "returned"

\* C2: a fallback call is issued only after the primary call, and only once the
\* primary call has completed with a failure; when the primary call succeeds no
\* fallback call is ever issued and the result is the primary's output.
C2_FallbackOnlyAfterPrimaryFailure ==
    flow \in FallbackFlows =>
        /\ \A i \in 1..Len(calls) :
              calls[i].role = "fallback" =>
                  /\ i > 1
                  /\ calls[1].role = "primary"
                  /\ primaryOut.kind \in {"throw", "null"}
        /\ primaryOut.kind = "text" =>
              /\ FallbackCalls = 0
              /\ pc = "returned"
              /\ results = <<[source |-> "primary", response |-> primaryOut.response]>>

C2_Witness ==
    /\ flow = GenerateResponseFlowName
    /\ primaryOut.kind = "text" /\ primaryOut.response = "Hi there!"
    /\ pc = "returned"
    /\ Len(calls) = 1

\* C3: one invocation issues at most two model calls, one primary and at most one
\* fallback; when both have failed exactly two calls were issued and the invocation
\* is over, with no call outstanding.
C3_AtMostTwoCalls ==
    /\ Len(calls) <= 2
    /\ PrimaryCalls <= 1
    /\ FallbackCalls <= 1
    /\ (flow \in FallbackFlows /\ PrimaryThrew /\ FallbackThrew) =>
          /\ Len(calls) = 2
          /\ Terminated

C3_Witness ==
    /\ flow \in FallbackFlows
    /\ PrimaryThrew /\ FallbackThrew
    /\ Len(calls) = 2

\* C4: when both the primary and the fallback call fail, the entry point resolves
\* with a result value carrying an explanatory text and rejects with nothing.
C4_TotalFailureIsAResult ==
    (flow \in FallbackFlows /\ PrimaryThrew /\ FallbackThrew) =>
        /\ pc = "returned"
        /\ raised = <<>>
        /\ Len(results) = 1

\* C5: an invocation on a request with message or image present that has ended has
\* produced exactly one result.
C5_ExactlyOneResult ==
    (flow \in FallbackFlows /\ MessageOrImagePresent /\ Terminated) =>
        Len(results) = 1

\* C6: a primary call that completes without throwing but with an empty, absent or
\* schema-invalid output is followed by exactly one fallback call.
C6_EmptyOutputTriggersFallback ==
    (flow \in FallbackFlows /\ EmptyOrInvalid(primaryOut)) => FallbackCalls = 1

\* C7 as stated: the prompt sent to the fallback model is identical to the prompt
\* sent to the primary model for the same request.
C7_IdenticalPrompt ==
    \A i \in 1..Len(calls) :
        calls[i].role = "fallback" => calls[i].prompt = calls[1].prompt

\* C7 as amended: the prompt sent to the fallback model carries the same chat
\* history, message and image lines as the prompt sent to the primary model; the
\* two differ in their leading instruction line only.
C7_SameRequestOtherInstruction ==
    \A i \in 1..Len(calls) :
        calls[i].role = "fallback" =>
            /\ calls[1].role = "primary"
            /\ Tail(calls[i].prompt) = Tail(calls[1].prompt)
            /\ Head(calls[i].prompt)[1] = "Instruction"
            /\ Head(calls[1].prompt)[1] = "Instruction"
            /\ Head(calls[i].prompt) # Head(calls[1].prompt)

C7_Witness ==
    /\ flow = GenerateResponseFlowName
    /\ FallbackCalls = 1
    /\ HbsTruthyArray(input.chatHistory)
    /\ HbsTruthyString(input.image)

\* C8: a request whose message is empty and whose image is empty or absent is
\* rejected as invalid and no model call is made for it.
C8_EmptyRequestRejected ==
    (flow # "none" /\ input.message = "" /\ ~JsTruthyString(input.image)) =>
        /\ Len(calls) = 0
        /\ pc = "raised"

\* C10: for a request whose chat history is absent or the empty list, the prompt
\* sent to the model has no history section: no "Chat History:" header and no
\* "User:" or "AI:" turn line.
C10_NoHistorySection ==
    (flow \in {GenerateResponseFlowName, StringBuilderFlowName}
       /\ Len(calls) >= 1
       /\ MessageOrImagePresent
       /\ ~HbsTruthyArray(input.chatHistory)) =>
        Labels(calls[1].prompt) \cap {"Chat History:", "User:", "AI:"} = {}

----------------------------------------------------------------------------
\* Properties of the chat page.

ErrorBubbles == { i \in 1..Len(messages) : messages[i].id = "-error" }

\* C9: every error bubble of the chat shows the one fixed text, whatever the cause,
\* and every notification shows a fixed text; the text of the underlying error
\* appears in neither.
C9_StableFailureText ==
    /\ \A i \in ErrorBubbles : messages[i].text = "Error: " \o FailureText
    /\ \A i \in 1..Len(toasts) : toasts[i] \in {FailureText, MissingKeyText}

----------------------------------------------------------------------------
\* Properties of the prompt builders.

\* The request is image-only: an empty message and an image present.
ImageOnly == input.message = "" /\ JsTruthyString(input.image)

HasImageLines(prompt) ==
    /\ \E i \in 1..Len(prompt) : prompt[i] = <<"User Image:", input.image>>
    /\ "Please describe the image." \in Labels(prompt)

\* C11 as stated: for an image-only request every prompt sent, by the templates of
\* generate-response.ts and by part_001's string builder, is non-empty and carries
\* the image reference and the instruction to describe the image.
C11_ImageOnlyDescribed ==
    (ImageOnly /\ flow \in {GenerateResponseFlowName, StringBuilderFlowName}) =>
        \A i \in 1..Len(calls) :
            Len(calls[i].prompt) > 0 /\ HasImageLines(calls[i].prompt)

\* C11 as amended: for an image-only request every prompt sent is non-empty; the
\* templates of generate-response.ts carry the image reference and the instruction
\* to describe the image, part_001's string builder carries neither (it adds them
\* only when the message is non-empty too).
C11_ImageOnlyPrompt ==
    ImageOnly =>
        \A i \in 1..Len(calls) :
            /\ Len(calls[i].prompt) > 0
            /\ flow = GenerateResponseFlowName => HasImageLines(calls[i].prompt)
            /\ flow = StringBuilderFlowName =>
                  /\ "Please describe the image." \notin Labels(calls[i].prompt)
                  /\ \A j \in 1..Len(calls[i].prompt) :
                        calls[i].prompt[j] # <<"User Image:", input.image>>
                  /\ <<"Message:", "">> = calls[i].prompt[Len(calls[i].prompt)]

C11_Witness ==
    /\ ImageOnly
    /\ flow = GenerateResponseFlowName
    /\ Len(calls) = 2
    /\ HbsTruthyArray(input.chatHistory)

----------------------------------------------------------------------------
\* Properties of a chat session.

NonUserTurns == Len(SelectSeq(messages, LAMBDA m : ~m.isUser))
MissingKeyToasts == Len(SelectSeq(toasts, LAMBDA t : t = MissingKeyText))

\* C13: at most one model call started by handleSendMessage is outstanding at any
\* time, whatever the user clicks or types.
C13_AtMostOneOutstanding == Len(pending) <= 1

\* C14 as stated: once no call is outstanding, every user message has its one
\* non-user bubble (the AI response or an "Error: ..." message), on every path.
C14_EveryUserMessageAnswered ==
    pending = <<>> => NonUserTurns = UserTurns

\* C14 as amended: every handleSendMessage call that appends a user message and
\* starts a model call gets exactly one non-user bubble when that call completes;
\* on the missing-API-key path no call is started and no bubble is appended, only
\* a notification is shown.
C14_OneBubblePerStartedCall ==
    /\ UserTurns = NonUserTurns + Len(pending) + MissingKeyToasts
    /\ ~apiKey => NonUserTurns = 0 /\ pending = <<>>

C14_Witness ==
    /\ page = PageTsx /\ apiKey
    /\ pending = <<>>
    /\ UserTurns = 2
    /\ \E i \in 1..Len(messages) : messages[i].id = "-error"
    /\ \E i \in 1..Len(messages) : messages[i].id = "-ai"

\* C15: isLoading is true whenever a model call started by handleSendMessage has
\* not completed, and false once every started call has completed.
C15_LoadingTracksOutstanding ==
    /\ Len(pending) > 0 => isLoading
    /\ Len(pending) = 0 => ~isLoading

\* C16: the message list is append-only: every step leaves it as it is or adds one
\* entry at its end, so no entry is ever removed, reordered or modified.
C16_AppendOnly ==
    [][ \/ messages' = messages
        \/ /\ Len(messages') = Len(messages) + 1
           /\ SubSeq(messages', 1, Len(messages)) = messages ]_vars

C16_Witness ==
    /\ Len(messages) = 4
    /\ messages[2].isUser
    /\ \E i \in 1..Len(messages) : messages[i].id = "-error"
    /\ \E i \in 1..Len(messages) : messages[i].id = "-ai"

\* The role a message has in the history sent to the model.
RoleOf(m) == IF m.isUser THEN "user" ELSE "model"

\* C17: for every request handleSendMessage starts, the history sent is exactly the
\* list of messages that existed before the request's user message was appended,
\* oldest first with the roles kept, and the current message is sent once, as the
\* new message, and is not part of that history.
C17_HistoryIsPriorMessages ==
    [][ Len(pending') = Len(pending) + 1 =>
          LET sent == pending'[Len(pending')]
              current == messages'[Len(messages')]
          IN  /\ Len(messages') = Len(messages) + 1
              /\ SubSeq(messages', 1, Len(messages)) = messages
              /\ current.isUser
              /\ page = PageTsx =>
                    /\ Len(sent.history) = Len(messages)
                    /\ \A k \in 1..Len(messages) :
                          /\ sent.history[k].role = RoleOf(messages[k])
                          /\ messages[k].text # "" =>
                                sent.history[k].parts[1] = <<"text", messages[k].text>>
                          /\ Len(sent.history[k].parts) =
                                (IF messages[k].text # "" THEN 1 ELSE 0)
                                  + (IF messages[k].image # Undefined THEN 1 ELSE 0)
                    /\ current.text # "" => sent.parts[1] = <<"text", current.text>>
                    /\ Len(sent.parts) =
                          (IF current.text # "" THEN 1 ELSE 0)
                            + (IF current.image # Undefined THEN 1 ELSE 0)
              /\ page = Part005 =>
                    /\ sent.request.chatHistory = messages
                    /\ sent.request.message = current.text ]_vars

C17_Witness ==
    \E i \in 1..Len(pending) :
        \/ page = PageTsx /\ Len(pending[i].history) = 2
                          /\ pending[i].history[2].role = "model"
        \/ page = Part005 /\ Len(pending[i].request.chatHistory) = 2
                          /\ ~pending[i].request.chatHistory[2].isUser

====
